---------------------------- MODULE Spec2Model ----------------------------
(*
  A model of the parsimple scanner (src/src/lib.rs): struct Parser (text,
  pos, line_offset), its consuming operations, the construction of ParsErr
  by Parser::error, and the rendering of ParsErr by default_lines and
  default_str.

  A string is a sequence of one-character strings (bytes; the model's texts
  are ASCII, so byte offsets and character offsets agree).  Offsets are
  0-based as in the source; Slice(s, i, j) is the source's s[i .. j].
*)
EXTENDS Naturals, Integers, Sequences, FiniteSets, TLC

VARIABLES
  text,         \* Parser::text
  pos,          \* Parser::pos
  line_offset,  \* Parser::line_offset
  panicked,     \* the last call panicked (a slice index out of range)
  op,           \* name of the last call made on the parser / the error
  arg,          \* its argument
  old,          \* Parser::pos before the last call
  ret,          \* what the last call returned
  err,          \* the ParsErr the caller holds (NoErr when none)
  out           \* what default_lines / default_str produced last

vars == <<text, pos, line_offset, panicked, op, arg, old, ret, err, out>>

-----------------------------------------------------------------------------
(* Bounds and input sets *)

MaxLen == 3       \* longest text
MaxTag == 2       \* longest tag
MaxSetLen == 1    \* longest text given to set()
MaxPush == 2      \* pushes on one error

Alphabet == {"a", " ", "\n", "\r"}
TagAlphabet == {"a", " "}
LineOffsets == {0, 1}

SeqsUpTo(S, n) == UNION {[1..k -> S] : k \in 0..n}

Texts == SeqsUpTo(Alphabet, MaxLen)
SetTexts == SeqsUpTo(Alphabet, MaxSetLen)
Tags == SeqsUpTo(TagAlphabet, MaxTag)
Positions == 0..(MaxLen + 1)
LifeSux == <<"l", "i", "f", "e", " ", "s", "u", "x">>
Msgs == {LifeSux, <<"i", "n", " ", "r", "u", "l", "e">>}

NoErr == [none |-> TRUE]

-----------------------------------------------------------------------------
(* Strings *)

\* s[i .. j] of the source, 0-based and half-open
Slice(s, i, j) == SubSeq(s, i + 1, j)

\* s[i ..]
SliceFrom(s, i) == SubSeq(s, i + 1, Len(s))

\* char::is_whitespace on the characters the model can write: the Unicode
\* White_Space property, of which \t \n \f \r and space are the ASCII part
\* expressible here (U+000B and the non-ASCII ones are not in any text).
IsWhitespace(c) == c \in {" ", "\t", "\n", "\f", "\r"}

\* str::trim_left
RECURSIVE trim_left(_)
trim_left(s) ==
  IF s # <<>> /\ IsWhitespace(Head(s)) THEN trim_left(Tail(s)) ELSE s

\* index (1-based) of the first "\n" of s, 0 when there is none
RECURSIVE FirstLF(_, _)
FirstLF(s, i) ==
  IF i > Len(s) THEN 0
  ELSE IF s[i] = "\n" THEN i
  ELSE FirstLF(s, i + 1)

\* a line without the "\r" that preceded its "\n"
StripCR(l) ==
  IF l # <<>> /\ l[Len(l)] = "\r" THEN SubSeq(l, 1, Len(l) - 1) ELSE l

\* str::lines: the text split after each "\n"; a line loses its "\n" and a
\* "\r" right before it; a final line without "\n" is kept as it is, and
\* nothing follows a final "\n".
RECURSIVE lines(_)
lines(s) ==
  IF s = <<>> THEN <<>>
  ELSE LET k == FirstLF(s, 1) IN
       IF k = 0 THEN <<s>>
       ELSE <<StripCR(SubSeq(s, 1, k - 1))>> \o lines(SubSeq(s, k + 1, Len(s)))

\* n copies of the fill character c: format!("{0:c^n}", "") and
\* format!("{0:c>n}", "") pad the empty string to width n with c
Pad(c, n) == [i \in 1..n |-> c]

DigitChars == <<"0", "1", "2", "3", "4", "5", "6", "7", "8", "9">>

\* Display for usize: decimal, no leading zero
RECURSIVE FmtUsize(_)
FmtUsize(n) ==
  IF n < 10 THEN <<DigitChars[n + 1]>>
  ELSE FmtUsize(n \div 10) \o <<DigitChars[(n % 10) + 1]>>


-----------------------------------------------------------------------------
(* The pattern matcher (the regex crate), for patterns of the shape
   ^?[cls]+ and ^?[cls]*: Regex::find returns the leftmost match, greedy. *)

ReAlpha == [src |-> <<"a", "+">>, anchored |-> FALSE, cls |-> {"a"}, min |-> 1]
ReAlphaAnchored == [src |-> <<"^", "a", "+">>, anchored |-> TRUE, cls |-> {"a"}, min |-> 1]
ReSpaces == [src |-> <<" ", "*">>, anchored |-> FALSE, cls |-> {" "}, min |-> 0]
Regexes == {ReAlpha, ReAlphaAnchored, ReSpaces}

\* number of consecutive characters of cls in s from 1-based index i
RECURSIVE RunLen(_, _, _)
RunLen(cls, s, i) ==
  IF i <= Len(s) /\ s[i] \in cls THEN 1 + RunLen(cls, s, i + 1) ELSE 0

\* 1-based index of the first character of cls in s at or after i, else 0
RECURSIVE FirstIn(_, _, _)
FirstIn(cls, s, i) ==
  IF i > Len(s) THEN 0
  ELSE IF s[i] \in cls THEN i
  ELSE FirstIn(cls, s, i + 1)

NoMatch == [found |-> FALSE]

\* re.find(s): the first match's start and end offsets in s
find(re, s) ==
  IF re.min = 0
  THEN [found |-> TRUE, start |-> 0, end |-> RunLen(re.cls, s, 1)]
  ELSE LET k == FirstIn(re.cls, s, 1) IN
       IF k = 0 \/ (re.anchored /\ k # 1) THEN NoMatch
       ELSE [found |-> TRUE, start |-> k - 1, end |-> k - 1 + RunLen(re.cls, s, k)]

-----------------------------------------------------------------------------
(* Parser: the pure part of each method, on a parser (t, p) *)

is_eof(t, p) == p >= Len(t)

chars_left(t, p) == IF is_eof(t, p) THEN 0 ELSE Len(t) - p - 1

\* &t[i .. j] panics unless i <= j <= len
SliceOk(t, i, j) == i <= j /\ j <= Len(t)

\* try_tag: what it returns ("panic" when a slice index is out of range)
\* and the cursor it leaves
try_tag_mut_advances(t, p, tag) ==
  IF chars_left(t, p) < Len(tag) THEN [ret |-> "false", pos |-> p]
  ELSE IF ~SliceOk(t, p, p + Len(tag)) THEN [ret |-> "panic", pos |-> p]
  ELSE IF Slice(t, p, p + Len(tag)) = tag
       THEN [ret |-> "true", pos |-> p + Len(tag)]
       ELSE [ret |-> "false", pos |-> p + 1]

try_tag(t, p, tag) ==
  IF chars_left(t, p) < Len(tag) THEN [ret |-> "false", pos |-> p]
  ELSE IF ~SliceOk(t, p, p + Len(tag)) THEN [ret |-> "panic", pos |-> p]
  ELSE IF Slice(t, p, p + Len(tag)) = tag
       THEN [ret |-> "true", pos |-> p + Len(tag)]
       ELSE [ret |-> "false", pos |-> p]

\* try_re: Some(matched) and the new cursor, None, or a panic
try_re_mut_unanchored(t, p, re) ==
  IF ~SliceOk(t, p, Len(t)) THEN [ret |-> "panic", pos |-> p]
  ELSE LET found_it == find(re, SliceFrom(t, p)) IN
       IF found_it.found
       THEN LET end == p + found_it.end IN
            [ret |-> "Some", val |-> Slice(t, p, end), pos |-> end]
       ELSE [ret |-> "None", pos |-> p]

try_re(t, p, re) ==
  IF ~SliceOk(t, p, Len(t)) THEN [ret |-> "panic", pos |-> p]
  ELSE LET found_it == find(re, SliceFrom(t, p)) IN
       IF found_it.found
       THEN IF found_it.start = 0
            THEN LET end == p + found_it.end IN
                 [ret |-> "Some", val |-> Slice(t, p, end), pos |-> end]
            ELSE [ret |-> "None", pos |-> p]
       ELSE [ret |-> "None", pos |-> p]

EofTkn == <<"<", "e", "o", "f", ">">>
EolTkn == <<"\\", "n">>

\* the loop of Parser::error over the lines left, ls, with the running
\* offset p and line counter line_count, and the ParsErr it ends with
RECURSIVE error_loop(_, _, _, _)
error_loop(ls, p, line_count, msg) ==
  IF ls = <<>>
  THEN [pos |-> <<line_count, p + 1>>, msg |-> <<msg>>,
        prf |-> <<>>, tkn |-> EofTkn, suf |-> <<>>]
  ELSE LET line == Head(ls)
           lc == line_count + 1
       IN IF p < Len(line)
          THEN [pos |-> <<lc, p + 1>>, msg |-> <<msg>>,
                prf |-> Slice(line, 0, p),
                tkn |-> Slice(line, p, p + 1),
                suf |-> Slice(line, p + 1, Len(line))]
          ELSE IF p = Len(line)
          THEN [pos |-> <<lc, p + 1>>, msg |-> <<msg>>,
                prf |-> line, tkn |-> EolTkn, suf |-> <<>>]
          ELSE error_loop(Tail(ls), p - (Len(line) + 1), lc, msg)

\* Parser::error(pos, msg) on a parser with text t and line offset o
error(t, o, p, msg) == error_loop(lines(t), p, o, msg)

\* the backquote character, which a TLA+ string literal cannot hold
Backquote == "U+0060"

\* format!("expected tag `{}`", tag)
ExpectedTag(tag) ==
  <<"e", "x", "p", "e", "c", "t", "e", "d", " ", "t", "a", "g", " ", Backquote>>
    \o tag \o <<Backquote>>

\* format!("no match for regex `{}`", re.as_str())
NoMatchFor(re) ==
  <<"n", "o", " ", "m", "a", "t", "c", "h", " ", "f", "o", "r", " ",
    "r", "e", "g", "e", "x", " ", Backquote>> \o re.src \o <<Backquote>>


\* ws: the cursor it leaves, or a panic
ws(t, p) ==
  IF ~SliceOk(t, p, Len(t)) THEN [ret |-> "panic", pos |-> p]
  ELSE LET rest == SliceFrom(t, p)
           trimmed == trim_left(rest)
           diff == Len(rest) - Len(trimmed)
       IN [ret |-> "unit", pos |-> p + diff]

-----------------------------------------------------------------------------
(* ParsErr *)

\* ParsErr::push
push(e, m) == [e EXCEPT !.msg = Append(e.msg, m)]

ErrorAtChars == <<"E", "r", "r", "o", "r", " ", "a", "t", " ", "[">>

\* ParsErr::default_lines: the lines handed to the treatment, in order
default_lines_mut_one_caret(e) ==
  << ErrorAtChars \o FmtUsize(e.pos[1]) \o <<",", " ">> \o FmtUsize(e.pos[2]) \o <<"]">> >>
    \o e.msg
    \o << <<"|", " ">> \o e.prf \o e.tkn \o e.suf,
          <<"|", " ">> \o Pad(" ", Len(e.prf)) \o Pad("^", 1) >>

default_lines(e) ==
  << ErrorAtChars \o FmtUsize(e.pos[1]) \o <<",", " ">> \o FmtUsize(e.pos[2]) \o <<"]">> >>
    \o e.msg
    \o << <<"|", " ">> \o e.prf \o e.tkn \o e.suf,
          <<"|", " ">> \o Pad(" ", Len(e.prf)) \o Pad("^", Len(e.tkn)) >>

\* the closure of default_str applied to the lines ls in turn
RECURSIVE str_loop(_, _, _)
str_loop(ls, s, first) ==
  IF ls = <<>> THEN s
  ELSE str_loop(Tail(ls), (IF first THEN s ELSE s \o <<"\n">>) \o Head(ls), FALSE)

\* ParsErr::default_str
default_str(e) == str_loop(default_lines(e), <<>>, TRUE)

-----------------------------------------------------------------------------
(* The state machine *)

\* What a call returns: a record whose kind names the variant.
Unit == [kind |-> "unit"]
Panic == [kind |-> "panic"]
Bool(b) == [kind |-> "bool", val |-> b]
Some(s) == [kind |-> "Some", val |-> s]
None == [kind |-> "None"]
Ok(v) == [kind |-> "Ok", val |-> v]
Err == [kind |-> "Err"]
Val(v) == [kind |-> "value", val |-> v]

\* Parser::new(t, o)
New(t, o) ==
  /\ text = t
  /\ pos = 0
  /\ line_offset = o
  /\ panicked = FALSE
  /\ op = "new"
  /\ arg = <<t, o>>
  /\ old = 0
  /\ ret = Unit
  /\ err = NoErr
  /\ out = <<>>

Init == \E t \in Texts, o \in LineOffsets : New(t, o)

\* a call on the parser that leaves the cursor at p, returns r (or panics)
\* and hands the caller the error e (NoErr when it builds none)
Call(name, a, r, p, e) ==
  /\ ~panicked
  /\ op' = name
  /\ arg' = a
  /\ old' = pos
  /\ ret' = r
  /\ pos' = p
  /\ panicked' = (r.kind = "panic")
  /\ err' = e
  /\ out' = <<>>

\* Parser::set(t, o)
SetMutResets(t, o) ==
  /\ Call("set", <<t, o>>, Unit, 0, NoErr)
  /\ text' = t
  /\ line_offset' = o

Set(t, o) ==
  /\ Call("set", <<t, o>>, Unit, pos, NoErr)
  /\ text' = t
  /\ line_offset' = o

\* Parser::pos
Pos ==
  /\ Call("pos", <<>>, Val(pos), pos, NoErr)
  /\ UNCHANGED <<text, line_offset>>

\* Parser::rest
Rest ==
  /\ Call("rest", <<>>,
          IF SliceOk(text, pos, Len(text)) THEN Val(SliceFrom(text, pos)) ELSE Panic,
          pos, NoErr)
  /\ UNCHANGED <<text, line_offset>>

\* Parser::ws
Ws ==
  /\ LET r == ws(text, pos) IN
       Call("ws", <<>>, IF r.ret = "panic" THEN Panic ELSE Unit, r.pos, NoErr)
  /\ UNCHANGED <<text, line_offset>>

\* Parser::try_tag(tag)
TryTag(tag) ==
  /\ LET r == try_tag(text, pos, tag) IN
       Call("try_tag", tag,
            IF r.ret = "panic" THEN Panic ELSE Bool(r.ret = "true"), r.pos, NoErr)
  /\ UNCHANGED <<text, line_offset>>

\* Parser::tag(tag)
Tag(tag) ==
  /\ LET r == try_tag(text, pos, tag) IN
       IF r.ret = "panic" THEN Call("tag", tag, Panic, r.pos, NoErr)
       ELSE IF r.ret = "false"
       THEN Call("tag", tag, Err, r.pos,
                 error(text, line_offset, r.pos, ExpectedTag(tag)))
       ELSE Call("tag", tag, Ok(<<>>), r.pos, NoErr)
  /\ UNCHANGED <<text, line_offset>>

\* Parser::try_re(re)
TryRe(re) ==
  /\ LET r == try_re(text, pos, re) IN
       Call("try_re", re,
            IF r.ret = "panic" THEN Panic
            ELSE IF r.ret = "Some" THEN Some(r.val) ELSE None,
            r.pos, NoErr)
  /\ UNCHANGED <<text, line_offset>>

\* Parser::re(re)
Re(re) ==
  /\ LET r == try_re(text, pos, re) IN
       IF r.ret = "panic" THEN Call("re", re, Panic, r.pos, NoErr)
       ELSE IF r.ret = "Some" THEN Call("re", re, Ok(r.val), r.pos, NoErr)
       ELSE Call("re", re, Err, r.pos,
                 error(text, line_offset, r.pos, NoMatchFor(re)))
  /\ UNCHANGED <<text, line_offset>>

\* Parser::error_here(msg)
ErrorHere(msg) ==
  /\ Call("error_here", <<pos, msg>>, Val("ParsErr"), pos,
          error(text, line_offset, pos, msg))
  /\ UNCHANGED <<text, line_offset>>

\* Parser::error(Pos { pos: p }, msg), p a handle taken from this parser or
\* from another one (Pos carries no link to the parser or text it came from)
Error(p, msg) ==
  /\ Call("error", <<p, msg>>, Val("ParsErr"), pos,
          error(text, line_offset, p, msg))
  /\ UNCHANGED <<text, line_offset>>

\* ParsErr::push(m) on the error the caller holds
Push(m) ==
  /\ err # NoErr
  /\ Len(err.msg) < 1 + MaxPush
  /\ err' = push(err, m)
  /\ op' = "push"
  /\ arg' = m
  /\ ret' = Unit
  /\ out' = <<>>
  /\ UNCHANGED <<text, pos, line_offset, panicked, old>>

\* ParsErr::default_lines on the error the caller holds
DefaultLines ==
  /\ err # NoErr
  /\ op' = "default_lines"
  /\ arg' = <<>>
  /\ ret' = Unit
  /\ out' = default_lines(err)
  /\ UNCHANGED <<text, pos, line_offset, panicked, old, err>>

\* ParsErr::default_str on the error the caller holds
DefaultStr ==
  /\ err # NoErr
  /\ op' = "default_str"
  /\ arg' = <<>>
  /\ ret' = Val(default_str(err))
  /\ out' = <<>>
  /\ UNCHANGED <<text, pos, line_offset, panicked, old, err>>

\* the scanner: every operation of Parser, from any new(text, line_offset)
Next ==
  \/ \E t \in SetTexts, o \in LineOffsets : Set(t, o)
  \/ Pos
  \/ Rest
  \/ Ws
  \/ \E tag \in Tags : TryTag(tag)
  \/ \E tag \in Tags : Tag(tag)
  \/ \E re \in Regexes : TryRe(re)
  \/ \E re \in Regexes : Re(re)
  \/ ErrorHere(LifeSux)
  \/ \E p \in Positions : Error(p, LifeSux)

Spec == Init /\ [][Next]_vars

\* the diagnostics: errors built at any offset of any text, pushed to and
\* rendered
RenderNext ==
  \/ \E p \in Positions : Error(p, LifeSux)
  \/ \E m \in Msgs : Push(m)
  \/ DefaultLines
  \/ DefaultStr

RenderSpec == Init /\ [][RenderNext]_vars


-----------------------------------------------------------------------------
(* Vocabulary of the properties, stated on the text itself *)

IsPrefix(a, b) == Len(a) <= Len(b) /\ SubSeq(b, 1, Len(a)) = a

\* the last call built an error at byte offset ErrOffset
ErrorBuilt == op \in {"error", "error_here"}
ErrOffset == arg[1]

\* number of "\n" in t[0 .. p]: the line terminators (LF, or CRLF) that end
\* before offset p
NbTerminators(t, p) == Cardinality({i \in 1..p : i <= Len(t) /\ t[i] = "\n"})

\* offset of the first byte of the line that holds offset p
LineStart(t, p) ==
  LET before == {i \in 1..p : i <= Len(t) /\ t[i] = "\n"}
  IN IF before = {} THEN 0 ELSE CHOOSE i \in before : \A j \in before : j <= i

\* the byte at offset p belongs to a line terminator (LF or CRLF)
InTerminator(t, p) ==
  \/ t[p + 1] = "\n"
  \/ t[p + 1] = "\r" /\ p + 2 <= Len(t) /\ t[p + 2] = "\n"

\* the line of t that holds offset p, without its terminator
LineOf(t, p) ==
  LET start == LineStart(t, p)
      after == {i \in (p + 1)..Len(t) : t[i] = "\n"}
      lf == IF after = {} THEN Len(t) + 1
            ELSE CHOOSE i \in after : \A j \in after : i <= j
      stop == IF lf <= Len(t) /\ lf - 1 > start /\ t[lf - 1] = "\r"
              THEN lf - 2 ELSE lf - 1
  IN SubSeq(t, start + 1, stop)

-----------------------------------------------------------------------------
(* Claims *)

\* C1: whenever rest() starts with the literal L (cursor <= length of the
\* text), try_tag(L) returns true and the cursor is the old cursor plus
\* length(L); L may be all of the remaining text, or empty.
C1_TryTagMatchesPrefix ==
  (op = "try_tag" /\ old <= Len(text) /\ IsPrefix(arg, SliceFrom(text, old)))
    => (ret = Bool(TRUE) /\ pos = old + Len(arg))

\* C2: a call of try_tag that returns false, of tag or re that returns Err,
\* or of try_re that returns None leaves cursor, text and line_offset as
\* they were before the call.
C2_FailureAtomic ==
  [][ ( \/ op' = "try_tag" /\ ret' = Bool(FALSE)
        \/ op' = "tag" /\ ret' = Err
        \/ op' = "try_re" /\ ret' = None
        \/ op' = "re" /\ ret' = Err )
      => (pos' = pos /\ text' = text /\ line_offset' = line_offset) ]_vars

\* a tag that failed in the middle of the text, after an earlier call had
\* moved the cursor
C2_Witness ==
  op = "tag" /\ ret = Err /\ 0 < pos /\ pos < Len(text)

\* C3: in every reachable state 0 <= cursor <= length(text).
C3_CursorInBounds == 0 <= pos /\ pos <= Len(text)

\* C4: try_re(re) accepts exactly the matcher's first match on rest() when
\* it starts at offset 0: the cursor moves to old cursor + match end and the
\* string returned is text[old cursor .. new cursor]; a first match that
\* starts later, or no match, gives None and an unchanged cursor.
C4_TryReAnchored ==
  (op = "try_re" /\ ~panicked) =>
    LET m == find(arg, SliceFrom(text, old)) IN
      IF m.found /\ m.start = 0
      THEN pos = old + m.end /\ ret = Some(Slice(text, old, pos))
      ELSE ret = None /\ pos = old

\* the pattern matches later in the remaining text, not at the cursor
C4_Witness ==
  /\ op = "try_re"
  /\ ret = None
  /\ find(arg, SliceFrom(text, old)).found

\* C5: an error built at an offset p >= length(text) has the token "<eof>".
C5_EofToken ==
  (ErrorBuilt /\ ErrOffset >= Len(text)) => err.tkn = EofTkn

\* C6: an error built at an offset p <= length(text) is at line
\* line_offset + 1 + (line terminators in text[0 .. p]) and at column
\* 1 + (p - offset of the first byte of that line).
C6_LineColumn ==
  (ErrorBuilt /\ ErrOffset <= Len(text)) =>
    err.pos = << line_offset + 1 + NbTerminators(text, ErrOffset),
                 1 + (ErrOffset - LineStart(text, ErrOffset)) >>

\* C7: an error built at an offset p < length(text) whose byte is not part
\* of a line terminator has that byte as token, prefix ++ token ++ suffix
\* equal to the line that holds p, and a prefix of length
\* p - (offset of the first byte of that line).
C7_Excerpt ==
  (ErrorBuilt /\ ErrOffset < Len(text) /\ ~InTerminator(text, ErrOffset)) =>
    /\ err.tkn = <<text[ErrOffset + 1]>>
    /\ err.prf \o err.tkn \o err.suf = LineOf(text, ErrOffset)
    /\ Len(err.prf) = ErrOffset - LineStart(text, ErrOffset)

\* the value of a string of decimal digits
RECURSIVE ParseNat(_)
ParseNat(ds) ==
  IF ds = <<>> THEN 0
  ELSE 10 * ParseNat(SubSeq(ds, 1, Len(ds) - 1))
       + (CHOOSE d \in 0..9 : DigitChars[d + 1] = ds[Len(ds)])

\* ds is the decimal writing of n
IsDecimal(ds, n) ==
  /\ ds # <<>>
  /\ \A i \in 1..Len(ds) : \E d \in 1..10 : DigitChars[d] = ds[i]
  /\ Len(ds) > 1 => ds[1] # "0"
  /\ ParseNat(ds) = n

\* l is "Error at [<line>, <column>]"
IsHeader(l, line, column) ==
  /\ IsPrefix(ErrorAtChars, l)
  /\ Len(l) > Len(ErrorAtChars)
  /\ l[Len(l)] = "]"
  /\ LET body == SubSeq(l, Len(ErrorAtChars) + 1, Len(l) - 1)
         commas == {i \in 1..Len(body) : body[i] = ","}
     IN /\ Cardinality(commas) = 1
        /\ LET k == CHOOSE i \in commas : TRUE IN
             /\ IsDecimal(SubSeq(body, 1, k - 1), line)
             /\ k + 1 <= Len(body) /\ body[k + 1] = " "
             /\ IsDecimal(SubSeq(body, k + 2, Len(body)), column)

\* l is "| ", then n spaces, then m '^'
IsCaretLine(l, n, m) ==
  /\ Len(l) = 2 + n + m
  /\ l[1] = "|" /\ l[2] = " "
  /\ \A i \in 3..(2 + n) : l[i] = " "
  /\ \A i \in (3 + n)..(2 + n + m) : l[i] = "^"

\* ls are the lines of the error e, as the claim lists them
AreLinesOf(ls, e) ==
  /\ Len(ls) = Len(e.msg) + 3
  /\ IsHeader(ls[1], e.pos[1], e.pos[2])
  /\ \A i \in 1..Len(e.msg) : ls[i + 1] = e.msg[i]
  /\ ls[Len(ls) - 1] = <<"|", " ">> \o e.prf \o e.tkn \o e.suf
  /\ IsCaretLine(ls[Len(ls)], Len(e.prf), Len(e.tkn))

\* offset in the joined string of the first character of line k of ls
RECURSIVE StartOf(_, _)
StartOf(ls, k) ==
  IF k = 1 THEN 0 ELSE StartOf(ls, k - 1) + Len(ls[k - 1]) + 1

\* s is the lines ls with one "\n" between two lines and none at the end
IsJoined(s, ls) ==
  /\ Len(s) = StartOf(ls, Len(ls) + 1) - 1
  /\ \A k \in 1..Len(ls) : Slice(s, StartOf(ls, k), StartOf(ls, k) + Len(ls[k])) = ls[k]
  /\ \A k \in 2..Len(ls) : s[StartOf(ls, k)] = "\n"

\* C8: default_lines on an error built by error and extended by pushes
\* emits length(messages) + 3 lines: "Error at [<line>, <column>]", the
\* messages (the constructor's first, then the pushed ones in push order),
\* "| " ++ prefix ++ token ++ suffix, and "| " with length(prefix) spaces
\* and length(token) '^'; default_str is these lines joined by one newline,
\* none at the end; push changes neither position nor excerpt.
C8_Rendering ==
  [][ /\ op' = "error" => err'.msg = <<arg'[2]>>
      /\ op' = "push" =>
           /\ err'.msg = Append(err.msg, arg')
           /\ err'.pos = err.pos
           /\ <<err'.prf, err'.tkn, err'.suf>> = <<err.prf, err.tkn, err.suf>>
      /\ op' = "default_lines" => (err' = err /\ AreLinesOf(out', err))
      /\ op' = "default_str" =>
           LET ls == default_lines(err) IN
             /\ err' = err
             /\ AreLinesOf(ls, err)
             /\ IsJoined(ret'.val, ls) ]_vars

\* an end-of-file error (a token of five characters) with two pushed
\* messages, rendered as one string
C8_Witness ==
  /\ op = "default_str"
  /\ err.tkn = EofTkn
  /\ Len(err.msg) = 3
  /\ err.msg[2] # err.msg[3]

\* C9: ws() never fails and leaves the cursor at the smallest offset
\* q >= old cursor with q = length(text) or text[q] not one of space, tab,
\* newline, carriage return; a second ws() changes nothing.
C9_WsSkipsWhitespace ==
  op = "ws" =>
    /\ ~panicked
    /\ old <= pos /\ pos <= Len(text)
    /\ pos = Len(text) \/ text[pos + 1] \notin {" ", "\t", "\n", "\r"}
    /\ \A q \in old..(pos - 1) : text[q + 1] \in {" ", "\t", "\n", "\r"}
    /\ ws(text, pos) = [ret |-> "unit", pos |-> pos]

=============================================================================
